---- MODULE Spec2Model ----
(***************************************************************************)
(* Model of application.py: a Flask storefront with a process-wide cart,   *)
(* a products table read from a relational store, signed links for image   *)
(* keys, and a checkout that uploads a file and enqueues the order.        *)
(*                                                                         *)
(* Spec     : requests handled one after another (each handler one step).  *)
(* SpecConc : add-to-cart and checkout POST interleaved on worker threads, *)
(*            split at every access to the shared cart and the queue.      *)
(***************************************************************************)
EXTENDS Integers, Sequences, FiniteSets, TLC

VARIABLES environ, phase, routes, REGION, BUCKET, SQS_URL,
          products, cart, queue, s3objects, served, last,
          pc, local, addsDone, lostUpdate, wipedAdd

vars == <<environ, phase, routes, REGION, BUCKET, SQS_URL,
          products, cart, queue, s3objects, served, last,
          pc, local, addsDone, lostUpdate, wipedAdd>>

configVars == <<environ, phase, routes, REGION, BUCKET, SQS_URL, products>>
threadVars == <<pc, local, addsDone, lostUpdate, wipedAdd>>

----------------------------------------------------------------------------
(* Bounds and input domains *)

\* number of requests served in one run
MaxRequests == 3
\* number of requests started in one concurrent run
MaxConcRequests == 4

Pids == {1, 2}
Threads == {1, 2}

\* Python's None
None == "<None>"

DefaultRegion == "ap-south-1"
DefaultExpires == 3600

BucketValues == {None, "", "shop-bucket"}
RegionValues == {None, "eu-west-1"}
QueueValues == {None, "", "https://sqs/orders"}

\* the file part of the checkout form: no "image" field, an empty filename,
\* or a filename
NoFile == "<no image field>"
Filenames == {"a.png", "../../etc/passwd"}
FileInputs == {NoFile, ""} \cup Filenames

Customers == {[name |-> None, email |-> None],
              [name |-> "ann", email |-> "ann@example.com"]}

\* the form inputs of the interleaved checkouts
ConcCustomers == {[name |-> "ann", email |-> "ann@example.com"]}
ConcFileInputs == {NoFile, "a.png"}

\* a remote call that raises during the request ("none": every call returns)
Faults == {"none", "db", "s3_upload", "s3_presign", "sqs"}

----------------------------------------------------------------------------
(* Python truthiness of an optional string *)
Truthy(v) == v /= None /\ v /= ""

(* os.environ.get(name, default) *)
EnvGet(value, default) == IF value = None THEN default ELSE value

----------------------------------------------------------------------------
(* The products table *)

ImageKey(p) == CASE p = 1 -> "products/1.jpg"
                 [] p = 2 -> "products/2.jpg"
                 [] OTHER -> "products/n.jpg"

PriceOf(p) == 2 * p + 1

RowsFor(p) == {[id |-> p, price |-> PriceOf(p), image_url |-> img] :
                  img \in {None, "", ImageKey(p)}}

ProductTables == UNION {{t \in [S -> UNION {RowsFor(p) : p \in S}] :
                            \A p \in S : t[p] \in RowsFor(p)} : S \in SUBSET Pids}

RECURSIVE SortedSeq(_)
SortedSeq(S) == IF S = {} THEN <<>>
                ELSE LET m == CHOOSE x \in S : \A y \in S : x <= y
                     IN <<m>> \o SortedSeq(S \ {m})

(* SELECT * FROM products *)
get_all_products(tbl) == LET ids == SortedSeq(DOMAIN tbl)
                         IN [i \in 1..Len(ids) |-> tbl[ids[i]]]

get_product_first(tbl, pid) ==
    IF DOMAIN tbl = {} THEN <<>>
    ELSE <<tbl[CHOOSE x \in DOMAIN tbl : \A y \in DOMAIN tbl : x <= y]>>
(* SELECT * FROM products WHERE id=pid; fetchone(): <<row>>, or <<>> for None *)
get_product(tbl, pid) == IF pid \in DOMAIN tbl THEN <<tbl[pid]>> ELSE <<>>

----------------------------------------------------------------------------
(* What a view is handed as an image reference *)

presigned_get_url(bucket, key) ==
    [tag |-> "presigned", bucket |-> bucket, key |-> key, expires |-> DefaultExpires]

\* url_for("static", filename="placeholder.png")
Placeholder == [tag |-> "static", bucket |-> "", key |-> "placeholder.png", expires |-> 0]

\* the stored column value, untouched
Raw(v) == [tag |-> "raw", bucket |-> "", key |-> v, expires |-> 0]

NoUrl == [tag |-> "none", bucket |-> "", key |-> None, expires |-> 0]

(* home / product_page: lines 92-96, 107-110 *)
ResolveImage(bucket, row) ==
    [row EXCEPT !.image_url = IF Truthy(row.image_url)
                              THEN presigned_get_url(bucket, row.image_url)
                              ELSE Placeholder]

(* view_cart: lines 125-126, no else branch *)
ResolveCartImage(bucket, row) ==
    [row EXCEPT !.image_url = IF Truthy(row.image_url)
                              THEN presigned_get_url(bucket, row.image_url)
                              ELSE Raw(row.image_url)]

----------------------------------------------------------------------------
(* The cart: a dict pid -> qty, kept in insertion order *)

CartPids(c) == {c[i].pid : i \in 1..Len(c)}

(* cart.get(pid, 0) *)
CartGet(c, pid) == IF pid \in CartPids(c)
                   THEN c[CHOOSE i \in 1..Len(c) : c[i].pid = pid].qty
                   ELSE 0

(* cart[pid] = v *)
CartSet(c, pid, v) == IF pid \in CartPids(c)
                      THEN [i \in 1..Len(c) |-> IF c[i].pid = pid
                                               THEN [pid |-> pid, qty |-> v]
                                               ELSE c[i]]
                      ELSE Append(c, [pid |-> pid, qty |-> v])

CartStoreBy2(c, pid, read) == CartSet(c, pid, read + 2)
(* cart[pid] = <the value cart.get(pid, 0) returned> + 1 *)
CartStore(c, pid, read) == CartSet(c, pid, read + 1)

CartIncrementSetsOne(c, pid) == CartSet(c, pid, 1)
(* cart[pid] = cart.get(pid, 0) + 1, with nothing running in between *)
CartIncrement(c, pid) == CartStore(c, pid, CartGet(c, pid))

CartClearKeeps(c) == c
(* cart.clear() *)
CartClear(c) == <<>>

\* the cart as a mapping
CartMap(c) == [p \in CartPids(c) |-> CartGet(c, p)]

----------------------------------------------------------------------------
(* Checkout helpers *)

(* werkzeug.utils.secure_filename on the filenames of Filenames: path
   separators become "_", leading dots and underscores are stripped *)
secure_filename(fn) == CASE fn = "a.png" -> "a.png"
                         [] fn = "../../etc/passwd" -> "etc_passwd"
                         [] OTHER -> ""

(* f"uploads/{filename}" *)
UploadKey(filename) == CASE filename = "a.png" -> "uploads/a.png"
                         [] filename = "etc_passwd" -> "uploads/etc_passwd"
                         [] OTHER -> "uploads/"

(* "image" in request.files and f.filename *)
HasUpload(file) == file /= NoFile /\ file /= ""

\* the reference to the module-level cart dict
CartRef == "<the cart dict>"

(* order = {"name": name, "email": email, "items": cart} *)
MakeOrder(cust) == [name |-> cust.name, email |-> cust.email, items |-> CartRef]

\* the order as read while the cart dict holds c
ReadOrder(order, c) == [name |-> order.name, email |-> order.email,
                        items |-> IF order.items = CartRef THEN c ELSE order.items]

(* json.dumps(order): an object's keys are written as strings *)
JsonDumps(order, c) ==
    LET o == ReadOrder(order, c)
    IN [name |-> o.name, email |-> o.email,
        items |-> [i \in 1..Len(o.items) |->
                      [key |-> ToString(o.items[i].pid), value |-> o.items[i].qty]]]

sqs_client_nonnull(url) == url /= None
(* boto3.client("sqs") if SQS_URL else None: TRUE when a client is returned *)
sqs_client(url) == Truthy(url)

----------------------------------------------------------------------------
(* Responses *)

NoOrder == [name |-> None, email |-> None, items |-> <<>>]

Blank == [route |-> "none", arg |-> 0, status |-> 0, body |-> "", products |-> <<>>,
          items |-> <<>>, total |-> 0, success |-> FALSE, order |-> NoOrder,
          file_url |-> NoUrl, sqs_sent |-> FALSE, fault |-> "none",
          pre |-> [cart |-> <<>>, qlen |-> 0]]

Pre == [cart |-> cart, qlen |-> Len(queue)]

\* an exception leaves the handler: the framework answers 500
ServerError(route, fault) ==
    [Blank EXCEPT !.route = route, !.status = 500, !.body = "Internal Server Error",
                  !.fault = fault, !.pre = Pre]

Ready(route) == phase = "ready" /\ route \in routes /\ served < MaxRequests

Respond(r) == /\ last' = r
              /\ served' = served + 1
              /\ UNCHANGED configVars
              /\ UNCHANGED threadVars

AllRoutes == {"home", "product_page", "view_cart", "add_to_cart", "checkout"}

----------------------------------------------------------------------------
(* Start of the process: lines 13-19, then the route decorators *)

BucketMissingNoneOnly(b) == b = None
(* not BUCKET *)
BucketMissing(b) == ~Truthy(b)

Startup ==
    /\ phase = "boot"
    /\ REGION' = EnvGet(environ.REGION, DefaultRegion)
    /\ BUCKET' = environ.S3_BUCKET
    /\ SQS_URL' = environ.SQS_QUEUE_URL
    /\ IF BucketMissing(environ.S3_BUCKET)
       THEN phase' = "crashed" /\ routes' = {}
       ELSE phase' = "ready" /\ routes' = AllRoutes
    /\ UNCHANGED <<environ, products, cart, queue, s3objects, served, last>>
    /\ UNCHANGED threadVars

----------------------------------------------------------------------------
(* GET / *)

Home(fault) ==
    /\ Ready("home")
    /\ fault \in {"none", "db", "s3_presign"}
    /\ LET rows == get_all_products(products)
           signs == \E i \in 1..Len(rows) : Truthy(rows[i].image_url)
       IN IF fault = "db" \/ (fault = "s3_presign" /\ signs)
          THEN Respond(ServerError("home", fault))
          ELSE Respond([Blank EXCEPT !.route = "home", !.status = 200,
                           !.body = "index.html", !.pre = Pre,
                           !.products = [i \in 1..Len(rows) |->
                                            ResolveImage(BUCKET, rows[i])]])
    /\ UNCHANGED <<cart, queue, s3objects>>

(* GET /product/<pid> *)

(* not p *)
NotFound(p) == p = <<>>

ProductPage(pid, fault) ==
    /\ Ready("product_page")
    /\ fault \in {"none", "db", "s3_presign"}
    /\ LET p == get_product(products, pid)
       IN IF fault = "db"
          THEN Respond([ServerError("product_page", fault) EXCEPT !.arg = pid])
          ELSE IF NotFound(p)
          THEN Respond([Blank EXCEPT !.route = "product_page", !.arg = pid, !.status = 404,
                           !.body = "Product not found", !.pre = Pre])
          ELSE IF fault = "s3_presign" /\ Truthy(Head(p).image_url)
          THEN Respond([ServerError("product_page", fault) EXCEPT !.arg = pid])
          ELSE Respond([Blank EXCEPT !.route = "product_page", !.arg = pid, !.status = 200,
                           !.body = "product.html", !.pre = Pre,
                           !.products = <<ResolveImage(BUCKET, Head(p))>>])
    /\ UNCHANGED <<cart, queue, s3objects>>

----------------------------------------------------------------------------
(* GET /cart *)

SubtotalIgnoresQty(price, qty) == price
(* p["price"] * qty *)
Subtotal(price, qty) == price * qty

\* the cart entries, in iteration order, whose product row exists
RECURSIVE CartItems(_, _, _)
CartItems(tbl, bucket, c) ==
    IF c = <<>> THEN <<>>
    ELSE LET p == get_product(tbl, Head(c).pid)
         IN IF NotFound(p)
            THEN CartItems(tbl, bucket, Tail(c))
            ELSE <<[product |-> ResolveCartImage(bucket, Head(p)),
                    qty |-> Head(c).qty,
                    subtotal |-> Subtotal(Head(p).price, Head(c).qty)]>>
                 \o CartItems(tbl, bucket, Tail(c))

(* total += subtotal *)
RECURSIVE Total(_)
Total(items) == IF items = <<>> THEN 0
                ELSE Head(items).subtotal + Total(Tail(items))

ViewCart(fault) ==
    /\ Ready("view_cart")
    /\ fault \in {"none", "db", "s3_presign"}
    /\ LET items == CartItems(products, BUCKET, cart)
           signs == \E i \in 1..Len(items) : items[i].product.image_url.tag = "presigned"
       IN IF (fault = "db" /\ cart /= <<>>) \/ (fault = "s3_presign" /\ signs)
          THEN Respond(ServerError("view_cart", fault))
          ELSE Respond([Blank EXCEPT !.route = "view_cart", !.status = 200,
                           !.body = "cart.html", !.pre = Pre,
                           !.items = items, !.total = Total(items)])
    /\ UNCHANGED <<cart, queue, s3objects>>

(* POST /cart/add/<pid> *)
AddToCart(pid) ==
    /\ Ready("add_to_cart")
    /\ cart' = CartIncrement(cart, pid)
    /\ Respond([Blank EXCEPT !.route = "add_to_cart", !.arg = pid, !.status = 302,
                   !.body = "/cart", !.pre = Pre])
    /\ UNCHANGED <<queue, s3objects>>

----------------------------------------------------------------------------
(* GET /checkout *)
CheckoutGet ==
    /\ Ready("checkout")
    /\ Respond([Blank EXCEPT !.route = "checkout_get", !.status = 200,
                   !.body = "checkout.html", !.pre = Pre])
    /\ UNCHANGED <<cart, queue, s3objects>>

(* POST /checkout.  The steps of lines 148-197, each a function of the
   state it reads: [ok, ...] with ok = FALSE when the remote call raised. *)

\* lines 157-173
UploadStep(objs, bucket, file, fault) ==
    IF ~HasUpload(file)
    THEN [ok |-> TRUE, s3 |-> objs, file_url |-> NoUrl]
    ELSE LET key == UploadKey(secure_filename(file))
         IN IF fault = "s3_upload"
            THEN [ok |-> FALSE, s3 |-> objs, file_url |-> NoUrl]
            ELSE IF fault = "s3_presign"
            THEN [ok |-> FALSE, s3 |-> objs \cup {key}, file_url |-> NoUrl]
            ELSE [ok |-> TRUE, s3 |-> objs \cup {key},
                  file_url |-> presigned_get_url(bucket, key)]

\* lines 178-186
SendStep(q, url, order, c, fault) ==
    IF ~sqs_client(url)
    THEN [ok |-> TRUE, queue |-> q, sqs_sent |-> FALSE]
    ELSE IF fault = "sqs"
    THEN [ok |-> FALSE, queue |-> q, sqs_sent |-> FALSE]
    ELSE [ok |-> TRUE, queue |-> Append(q, JsonDumps(order, c)), sqs_sent |-> TRUE]

\* lines 191-197: the template reads order while the cart dict holds c
Confirmation(order, c, file_url, sqs_sent) ==
    [Blank EXCEPT !.route = "checkout_post", !.status = 200, !.body = "checkout.html",
                  !.success = TRUE, !.order = ReadOrder(order, c),
                  !.file_url = file_url, !.sqs_sent = sqs_sent]

CheckoutPostClearsFirst(cust, file, fault) ==
    /\ Ready("checkout")
    /\ fault \in {"none", "s3_upload", "s3_presign", "sqs"}
    /\ LET order == MakeOrder(cust)
           up == UploadStep(s3objects, BUCKET, file, fault)
           snd == SendStep(queue, SQS_URL, order, CartClear(cart), fault)
       IN IF ~up.ok
          THEN /\ s3objects' = up.s3
               /\ cart' = CartClear(cart)
               /\ UNCHANGED queue
               /\ Respond(ServerError("checkout_post", fault))
          ELSE IF ~snd.ok
          THEN /\ s3objects' = up.s3
               /\ cart' = CartClear(cart)
               /\ UNCHANGED queue
               /\ Respond(ServerError("checkout_post", fault))
          ELSE /\ s3objects' = up.s3
               /\ queue' = snd.queue
               /\ cart' = CartClear(cart)
               /\ Respond([Confirmation(order, cart', up.file_url, snd.sqs_sent)
                              EXCEPT !.pre = Pre])

CheckoutPost(cust, file, fault) ==
    /\ Ready("checkout")
    /\ fault \in {"none", "s3_upload", "s3_presign", "sqs"}
    /\ LET order == MakeOrder(cust)
           up == UploadStep(s3objects, BUCKET, file, fault)
           snd == SendStep(queue, SQS_URL, order, cart, fault)
       IN IF ~up.ok
          THEN /\ s3objects' = up.s3
               /\ UNCHANGED <<cart, queue>>
               /\ Respond(ServerError("checkout_post", fault))
          ELSE IF ~snd.ok
          THEN /\ s3objects' = up.s3
               /\ UNCHANGED <<cart, queue>>
               /\ Respond(ServerError("checkout_post", fault))
          ELSE /\ s3objects' = up.s3
               /\ queue' = snd.queue
               /\ cart' = CartClear(cart)
               /\ Respond([Confirmation(order, cart', up.file_url, snd.sqs_sent)
                              EXCEPT !.pre = Pre])

\* a worker thread's local variables
NoLocals == [pid |-> 0, read |-> 0, order |-> MakeOrder([name |-> None, email |-> None]),
             file_url |-> NoUrl, sqs_sent |-> FALSE, body |-> <<>>]

----------------------------------------------------------------------------
(* Sequential specification *)

Init ==
    /\ environ \in [REGION : RegionValues, S3_BUCKET : BucketValues,
                    SQS_QUEUE_URL : QueueValues]
    /\ phase = "boot"
    /\ routes = {}
    /\ REGION = None
    /\ BUCKET = None
    /\ SQS_URL = None
    /\ products \in ProductTables
    /\ cart = <<>>
    /\ queue = <<>>
    /\ s3objects = {}
    /\ served = 0
    /\ last = Blank
    /\ pc = [t \in Threads |-> "idle"]
    /\ local = [t \in Threads |-> NoLocals]
    /\ addsDone = [p \in Pids |-> 0]
    /\ lostUpdate = FALSE
    /\ wipedAdd = FALSE

Next ==
    \/ Startup
    \/ \E f \in Faults : Home(f)
    \/ \E pid \in Pids, f \in Faults : ProductPage(pid, f)
    \/ \E f \in Faults : ViewCart(f)
    \/ \E pid \in Pids : AddToCart(pid)
    \/ CheckoutGet
    \/ \E cust \in Customers, file \in FileInputs, f \in Faults :
          CheckoutPost(cust, file, f)

Spec == Init /\ [][Next]_vars

----------------------------------------------------------------------------
(* Concurrent specification: one worker thread per request, no lock on the
   cart.  add_to_cart reads (cart.get) and then writes (cart[pid] = ...);
   checkout POST uploads, sends, clears and renders as separate steps. *)

\* the quantity a JSON items object holds for pid
JsonQty(items, pid) ==
    IF \E i \in 1..Len(items) : items[i].key = ToString(pid)
    THEN items[CHOOSE i \in 1..Len(items) : items[i].key = ToString(pid)].value
    ELSE 0

CanStart(t) == phase = "ready" /\ pc[t] = "idle" /\ served < MaxConcRequests

Finish(t, r) == /\ pc' = [pc EXCEPT ![t] = "idle"]
                /\ last' = r

(* line 137, right-hand side: cart.get(pid, 0) *)
AddRead(t, pid) ==
    /\ CanStart(t)
    /\ "add_to_cart" \in routes
    /\ served' = served + 1
    /\ local' = [local EXCEPT ![t] = [NoLocals EXCEPT !.pid = pid,
                                                     !.read = CartGet(cart, pid)]]
    /\ pc' = [pc EXCEPT ![t] = "add_write"]
    /\ UNCHANGED <<cart, queue, s3objects, last, addsDone, lostUpdate, wipedAdd>>
    /\ UNCHANGED configVars

(* line 137, the store, and line 138 *)
AddWrite(t) ==
    /\ pc[t] = "add_write"
    /\ cart' = CartStore(cart, local[t].pid, local[t].read)
    /\ addsDone' = [addsDone EXCEPT ![local[t].pid] = @ + 1]
    /\ lostUpdate' = (lostUpdate \/ CartGet(cart', local[t].pid) <= CartGet(cart, local[t].pid))
    /\ Finish(t, [Blank EXCEPT !.route = "add_to_cart", !.arg = local[t].pid,
                                !.status = 302, !.body = "/cart"])
    /\ UNCHANGED <<queue, s3objects, served, local, wipedAdd>>
    /\ UNCHANGED configVars

(* lines 148-173 *)
CoStart(t, cust, file, fault) ==
    /\ CanStart(t)
    /\ "checkout" \in routes
    /\ fault \in {"none", "s3_upload", "s3_presign"}
    /\ served' = served + 1
    /\ LET up == UploadStep(s3objects, BUCKET, file, fault)
       IN /\ s3objects' = up.s3
          /\ IF up.ok
             THEN /\ local' = [local EXCEPT ![t] = [NoLocals EXCEPT
                                     !.order = MakeOrder(cust), !.file_url = up.file_url]]
                  /\ pc' = [pc EXCEPT ![t] = "co_send"]
                  /\ UNCHANGED last
             ELSE /\ local' = [local EXCEPT ![t] = NoLocals]
                  /\ Finish(t, [ServerError("checkout_post", fault) EXCEPT !.pre = Blank.pre])
    /\ UNCHANGED <<cart, queue, addsDone, lostUpdate, wipedAdd>>
    /\ UNCHANGED configVars

(* lines 178-186 *)
CoSend(t, fault) ==
    /\ pc[t] = "co_send"
    /\ fault \in {"none", "sqs"}
    /\ LET snd == SendStep(queue, SQS_URL, local[t].order, cart, fault)
       IN /\ queue' = snd.queue
          /\ IF snd.ok
             THEN /\ local' = [local EXCEPT ![t].sqs_sent = snd.sqs_sent,
                                            ![t].body = IF snd.sqs_sent
                                                        THEN snd.queue[Len(snd.queue)].items
                                                        ELSE <<>>]
                  /\ pc' = [pc EXCEPT ![t] = "co_clear"]
                  /\ UNCHANGED last
             ELSE /\ local' = [local EXCEPT ![t] = NoLocals]
                  /\ Finish(t, [ServerError("checkout_post", fault) EXCEPT !.pre = Blank.pre])
    /\ UNCHANGED <<cart, s3objects, served, addsDone, lostUpdate, wipedAdd>>
    /\ UNCHANGED configVars

(* line 189 *)
CoClear(t) ==
    /\ pc[t] = "co_clear"
    /\ cart' = CartClear(cart)
    /\ wipedAdd' = (wipedAdd \/ (local[t].sqs_sent /\
                       \E p \in Pids : CartGet(cart, p) > JsonQty(local[t].body, p)))
    /\ pc' = [pc EXCEPT ![t] = "co_render"]
    /\ UNCHANGED <<queue, s3objects, served, last, local, addsDone, lostUpdate>>
    /\ UNCHANGED configVars

(* lines 191-197 *)
CoRender(t) ==
    /\ pc[t] = "co_render"
    /\ Finish(t, Confirmation(local[t].order, cart, local[t].file_url, local[t].sqs_sent))
    /\ local' = [local EXCEPT ![t] = NoLocals]
    /\ UNCHANGED <<cart, queue, s3objects, served, addsDone, lostUpdate, wipedAdd>>
    /\ UNCHANGED configVars

\* a catalogue in which every product has a row and an image key
FullCatalogue == [p \in Pids |-> [id |-> p, price |-> PriceOf(p), image_url |-> ImageKey(p)]]

\* the process after a successful start, before its first request
InitConc ==
    /\ environ \in [REGION : {None}, S3_BUCKET : {b \in BucketValues : ~BucketMissing(b)},
                    SQS_QUEUE_URL : QueueValues \ {""}]
    /\ phase = "ready"
    /\ routes = AllRoutes
    /\ REGION = EnvGet(environ.REGION, DefaultRegion)
    /\ BUCKET = environ.S3_BUCKET
    /\ SQS_URL = environ.SQS_QUEUE_URL
    /\ products = FullCatalogue
    /\ cart = <<>>
    /\ queue = <<>>
    /\ s3objects = {}
    /\ served = 0
    /\ last = Blank
    /\ pc = [t \in Threads |-> "idle"]
    /\ local = [t \in Threads |-> NoLocals]
    /\ addsDone = [p \in Pids |-> 0]
    /\ lostUpdate = FALSE
    /\ wipedAdd = FALSE

NextConc ==
    \/ \E t \in Threads, pid \in Pids : AddRead(t, pid)
    \/ \E t \in Threads : AddWrite(t)
    \/ \E t \in Threads, cust \in ConcCustomers, file \in ConcFileInputs, f \in Faults :
          CoStart(t, cust, file, f)
    \/ \E t \in Threads, f \in Faults : CoSend(t, f)
    \/ \E t \in Threads : CoClear(t)
    \/ \E t \in Threads : CoRender(t)

SpecConc == InitConc /\ [][NextConc]_vars

----------------------------------------------------------------------------
(* Properties *)

\* the mapping a JSON items object decodes to
JsonItemsMap(items) ==
    [p \in {q \in Pids : \E i \in 1..Len(items) : items[i].key = ToString(q)} |->
        JsonQty(items, p)]

RECURSIVE SumOver(_, _, _)
SumOver(S, tbl, c) ==
    IF S = {} THEN 0
    ELSE LET p == CHOOSE x \in S : TRUE
         IN tbl[p].price * CartGet(c, p) + SumOver(S \ {p}, tbl, c)

CheckoutDone == last.route = "checkout_post" /\ last.status = 200

\* C1: after a checkout POST that completes without a remote-service error the
\* cart holds no entry, whatever the file and the queue configuration; a cart
\* view of an empty cart lists no item and total 0.
C1_CartEmptyAfterCheckout ==
    /\ CheckoutDone => cart = <<>> /\ CartPids(cart) = {}
    /\ (last.route = "view_cart" /\ last.status = 200 /\ last.pre.cart = <<>>)
          => (last.items = <<>> /\ last.total = 0)

C1_Witness ==
    /\ CheckoutDone
    /\ \E p \in Pids : CartGet(last.pre.cart, p) = 2
    /\ cart = <<>>

\* C2: an add-to-cart request raises the quantity of its product id by one
\* (from 0 when the entry was absent), leaves every other entry as it was, and
\* every stored quantity is a positive integer.
C2_AddIncrementsByOne ==
    /\ last.route = "add_to_cart" =>
          /\ \A p \in Pids :
                CartGet(cart, p) = CartGet(last.pre.cart, p) + (IF p = last.arg THEN 1 ELSE 0)
          /\ CartPids(cart) = CartPids(last.pre.cart) \cup {last.arg}
    /\ \A i \in 1..Len(cart) : cart[i].qty >= 1
    /\ \A i, j \in 1..Len(cart) : cart[i].pid = cart[j].pid => i = j

C2_Witness ==
    /\ last.route = "add_to_cart"
    /\ CartGet(last.pre.cart, last.arg) = 1
    /\ CartGet(cart, last.arg) = 2
    /\ Len(cart) = 2

\* C3: a completed checkout POST enqueues nothing and reports not sent when no
\* queue endpoint is configured; with an endpoint it enqueues exactly one
\* message, reports sent, and the message's items decode to the cart mapping
\* as it was before the cart was cleared.
C3_QueueSendMatchesConfig ==
    CheckoutDone =>
       IF ~Truthy(SQS_URL)
       THEN /\ Len(queue) = last.pre.qlen
            /\ ~last.sqs_sent
            /\ last.success
       ELSE /\ Len(queue) = last.pre.qlen + 1
            /\ last.sqs_sent
            /\ Len(queue[Len(queue)].items) = Len(last.pre.cart)
            /\ JsonItemsMap(queue[Len(queue)].items) = CartMap(last.pre.cart)

C3_Witness ==
    /\ CheckoutDone
    /\ Truthy(SQS_URL)
    /\ last.sqs_sent
    /\ Len(last.pre.cart) = 2
    /\ JsonItemsMap(queue[Len(queue)].items) = CartMap(last.pre.cart)

\* C4: the order echoed on the confirmation page holds the cart contents that
\* existed when the checkout was submitted.
C4_OrderEchoesSnapshot ==
    CheckoutDone => last.order.items = last.pre.cart

\* C5: the cart view returns one item for each cart entry whose product row
\* exists and none for the others; each subtotal is the product's price times
\* the quantity, the total is the sum of the subtotals, and the cart is left
\* as it was.
C5_CartViewJoin ==
    (last.route = "view_cart" /\ last.status = 200) =>
       LET c == last.pre.cart
           live == CartPids(c) \cap DOMAIN products
       IN /\ cart = c
          /\ Len(last.items) = Cardinality(live)
          /\ \A p \in live :
                \E i \in 1..Len(last.items) :
                   /\ last.items[i].product.id = p
                   /\ last.items[i].qty = CartGet(c, p)
                   /\ last.items[i].subtotal = products[p].price * CartGet(c, p)
          /\ \A i \in 1..Len(last.items) : last.items[i].product.id \in live
          /\ last.total = SumOver(live, products, c)

C5_Witness ==
    /\ last.route = "view_cart"
    /\ last.status = 200
    /\ \E p \in Pids : CartGet(last.pre.cart, p) = 1 /\ p \in DOMAIN products
    /\ \E p \in Pids : CartGet(last.pre.cart, p) = 1 /\ p \notin DOMAIN products
    /\ Len(last.items) = 1
    /\ last.total = last.items[1].subtotal
    /\ last.total > 0

\* C6: the detail page of an id with no row is a 404 with a plain-text body,
\* no signed link and no template, and the cart unchanged; the detail page of
\* an id with a row is the page of that row.
C6_DetailNotFound ==
    (last.route = "product_page" /\ last.status /= 500) =>
       IF last.arg \notin DOMAIN products
       THEN /\ last.status = 404
            /\ last.body = "Product not found"
            /\ last.products = <<>>
            /\ cart = last.pre.cart
       ELSE /\ last.status = 200
            /\ last.body = "product.html"
            /\ Len(last.products) = 1
            /\ last.products[1].id = last.arg
            /\ last.products[1].price = products[last.arg].price

C6_Witness ==
    /\ last.route = "product_page"
    /\ last.status = 404
    /\ last.arg \notin DOMAIN products
    /\ DOMAIN products /= {}

\* the product rows handed to the last view
Rendered == {last.products[i] : i \in 1..Len(last.products)}
               \cup {last.items[i].product : i \in 1..Len(last.items)}

\* C7: every product a page renders carries a signed link when its stored
\* image key is non-empty and the placeholder otherwise.
C7_ImageAlwaysResolved ==
    \A r \in Rendered :
       IF Truthy(products[r.id].image_url)
       THEN r.image_url.tag = "presigned" /\ r.image_url.key = products[r.id].image_url
       ELSE r.image_url = Placeholder

\* C8: with the bucket name unset or empty the start aborts, no route is
\* registered and no request is served; only the bucket name can abort the
\* start, and an unset region becomes the default.
C8_StartupNeedsBucket ==
    /\ ~Truthy(environ.S3_BUCKET) =>
          (phase /= "ready" /\ routes = {} /\ served = 0 /\ last = Blank)
    /\ phase = "crashed" => ~Truthy(environ.S3_BUCKET)
    /\ (phase = "boot" /\ Truthy(environ.S3_BUCKET)) => ENABLED Startup
    /\ phase = "ready" => routes = AllRoutes
    /\ (phase /= "boot" /\ environ.REGION = None) => REGION = DefaultRegion
    /\ served > 0 => phase = "ready"

C8_Witness ==
    /\ phase = "crashed"
    /\ environ.S3_BUCKET = ""
    /\ environ.SQS_QUEUE_URL /= None
    /\ routes = {}

AllIdle == \A t \in Threads : pc[t] = "idle"

\* C9: interleaved requests can only lose increments: a quantity never exceeds
\* the number of completed adds of its id, a lost update needs two adds of one
\* id, and a wiped add needs a sent order.  (C9_Witness is the interleaving in
\* which both happen.)
C9_RacesOnlyLose ==
    /\ \A p \in Pids : CartGet(cart, p) <= addsDone[p]
    /\ lostUpdate => \E p \in Pids : addsDone[p] >= 2
    /\ wipedAdd => (Len(queue) >= 1 /\ \E p \in Pids : addsDone[p] >= 1)

C9_Witness ==
    /\ AllIdle
    /\ lostUpdate
    /\ wipedAdd
    /\ addsDone[1] = 2
    /\ addsDone[2] = 1
    /\ Len(queue) = 1
    /\ JsonItemsMap(queue[1].items) = (1 :> 1)
    /\ cart = <<>>

\* C10: a checkout POST whose upload, signed link or queue send fails answers
\* with the error, leaves the cart as it was and, when the upload or the
\* signed link failed, sends nothing; list, detail, cart view and checkout
\* GET never change the cart.
C10_FailedCheckoutKeepsCart ==
    /\ (last.route = "checkout_post" /\ last.status = 500) =>
          /\ cart = last.pre.cart
          /\ last.fault \in {"s3_upload", "s3_presign", "sqs"}
          /\ ~last.success
          /\ Len(queue) = last.pre.qlen
    /\ last.route \in {"home", "product_page", "view_cart", "checkout_get"} =>
          cart = last.pre.cart
    /\ (last.route /= "none" /\ last.pre.cart /= <<>> /\ cart = <<>>) => CheckoutDone

C10_Witness ==
    /\ last.route = "checkout_post"
    /\ last.status = 500
    /\ last.fault = "s3_upload"
    /\ Len(cart) = 2
    /\ cart = last.pre.cart

====
